---- MODULE Spec2Model ----
(***************************************************************************)
(* Model of src/app.py, the Streamlit "Supply Chain Scenario Copilot".     *)
(*                                                                         *)
(* The script is re-executed from top to bottom on every user interaction  *)
(* (a file upload, an edit of a tariff number_input, a move of the FX      *)
(* slider).  One action of the model is one such execution of the whole    *)
(* script; the variables hold what the script has bound when it ends.      *)
(*                                                                         *)
(* Arithmetic is exact fixed point:                                        *)
(*   base_cost             tenths of a currency unit    (10.0  -> 100)     *)
(*   tariff rates          hundredths                   (0.20  -> 20)      *)
(*   fx                    hundredths                   (1.00  -> 100)     *)
(*   landed costs, savings base*(100+rate)*fx, i.e. units of 1e-5          *)
(*                                                      (12.0  -> 1200000) *)
(***************************************************************************)
EXTENDS Integers, Sequences, FiniteSets, TLC

VARIABLES
    raw,                  \* the table read by pd.read_csv (upload or sample)
    halted,               \* TRUE when the run ended in st.error / st.stop
    df,                   \* the data frame when the run ends
    default_tariffs,      \* baseline tariff map (built-in + data countries)
    country_rates,        \* scenario tariff map (the number_input values)
    fx_adj,               \* the FX slider value
    candidate_countries,  \* sorted list of switch candidates
    recs                  \* the recommendations view

vars == <<raw, halted, df, default_tariffs, country_rates, fx_adj,
          candidate_countries, recs>>

(***************************************************************************)
(* Bounds of the model and constants of the program.                       *)
(***************************************************************************)
MaxRecords == 2

fallback_rate == 5
fx_default == 100
fx_baseline == 100
rate_min == 0
rate_max == 100
top_n == 15

Max(a, b) == IF a >= b THEN a ELSE b
Min(a, b) == IF a <= b THEN a ELSE b

(***************************************************************************)
(* Raw cells.  A numeric column of the CSV holds a number (in tenths), a   *)
(* text that is no number, or nothing.  A missing supplier_country is the  *)
(* marker NA.                                                              *)
(***************************************************************************)
Num(v) == [kind |-> "num", val |-> v]
Text == [kind |-> "str", val |-> 0]
NaN == [kind |-> "nan", val |-> 0]
NA == "<NA>"

(***************************************************************************)
(* Inputs: the rows and headers a CSV may hold, the rate and FX values a   *)
(* user may enter, the widgets the user touches.                           *)
(***************************************************************************)
RowInputs ==
    { [sku |-> "SKU-001", product_name |-> "Widget A", base_cost |-> Num(100),
       supplier_country |-> "China", hs_code |-> "850440",
       annual_units |-> Num(1000)],
      [sku |-> "SKU-002", product_name |-> "Widget B", base_cost |-> Text,
       supplier_country |-> NA, hs_code |-> "850440",
       annual_units |-> Num(-15)],
      [sku |-> "SKU-003", product_name |-> "Widget C", base_cost |-> Num(-100),
       supplier_country |-> "Brazil", hs_code |-> "850440",
       annual_units |-> Num(2005)] }

HeaderInputs ==
    { {"sku", "product_name", "base_cost", "supplier_country", "hs_code",
       "annual_units"},
      {"SKU", "Product_Name", "base_cost", "Supplier_Country", "HS_Code",
       "annual_units", "Notes"},
      {"sku", "product_name", "base_cost", "supplier_country",
       "annual_units"} }

RateInputs == {0, 10}
FxInputs == {80, 100, 120}
EditCountries == {"Brazil", "China", "USA"}

(***************************************************************************)
(* str.lower on the column names the inputs use.                           *)
(***************************************************************************)
Lower(c) ==
    CASE c = "SKU" -> "sku"
      [] c = "Product_Name" -> "product_name"
      [] c = "Supplier_Country" -> "supplier_country"
      [] c = "HS_Code" -> "hs_code"
      [] c = "Notes" -> "notes"
      [] OTHER -> c

(***************************************************************************)
(* pd.read_csv: a table with the header's columns; a column the canonical  *)
(* row does not have (an extra column) holds text.                         *)
(***************************************************************************)
ReadCsvRow(header, row) ==
    [c \in header |-> IF Lower(c) \in DOMAIN row THEN row[Lower(c)] ELSE "x"]

ReadCsv(header, rows) ==
    [columns |-> header,
     rows |-> [i \in 1..Len(rows) |-> ReadCsvRow(header, rows[i])]]

RowSeqs == UNION {[1..n -> RowInputs] : n \in 0..MaxRecords}

FileInputs == {ReadCsv(h, rs) : h \in HeaderInputs, rs \in RowSeqs}

\* sample_data.csv has the expected format shown in the expander
SampleInputs ==
    {ReadCsv({"sku", "product_name", "base_cost", "supplier_country",
              "hs_code", "annual_units"}, rs) : rs \in RowSeqs}

(***************************************************************************)
(* Schema check.                                                           *)
(***************************************************************************)
required ==
    {"sku", "product_name", "base_cost", "supplier_country", "hs_code",
     "annual_units"}

MissingCaseSensitive(columns) == required \ columns

Missing(columns) == required \ {Lower(c) : c \in columns}

LowerColumns(table) ==
    [columns |-> {Lower(c) : c \in table.columns},
     rows |-> [i \in 1..Len(table.rows) |->
                 [c2 \in {Lower(c) : c \in table.columns} |->
                    table.rows[i][CHOOSE c \in table.columns : Lower(c) = c2]]]]

(***************************************************************************)
(* Basic cleaning.                                                         *)
(***************************************************************************)
ToNumeric(cell) == IF cell.kind = "num" THEN cell ELSE NaN

FillNa(cell, v) == IF cell.kind = "nan" THEN v ELSE cell.val

\* astype(int): truncation toward zero of a value held in tenths
AsTypeInt(tenths) == IF tenths >= 0 THEN tenths \div 10 ELSE -((-tenths) \div 10)

CleanRow(row) ==
    [row EXCEPT
       !.base_cost = FillNa(ToNumeric(row.base_cost), 0),
       !.annual_units = AsTypeInt(FillNa(ToNumeric(row.annual_units), 0)),
       !.supplier_country = IF row.supplier_country = NA THEN "Unknown"
                            ELSE row.supplier_country]

Clean(table) ==
    [table EXCEPT !.rows = [i \in 1..Len(table.rows) |-> CleanRow(table.rows[i])]]

(***************************************************************************)
(* Tariff table.                                                           *)
(***************************************************************************)
builtin_tariffs ==
    [c \in {"China", "Vietnam", "India", "Mexico", "USA", "Thailand",
            "Malaysia", "Indonesia", "Taiwan", "Unknown"} |->
       CASE c = "China" -> 20
         [] c = "Vietnam" -> 8
         [] c = "India" -> 10
         [] c = "Mexico" -> 5
         [] c = "USA" -> 0
         [] c = "Thailand" -> 6
         [] c = "Malaysia" -> 5
         [] c = "Indonesia" -> 7
         [] c = "Taiwan" -> 4
         [] c = "Unknown" -> 0]

\* the literal list appended to the candidates
named_candidates ==
    {"China", "Vietnam", "India", "Mexico", "Thailand", "Malaysia",
     "Indonesia", "Taiwan", "USA"}

\* Python's order of the country names of the model
CountryOrder ==
    <<"Brazil", "China", "India", "Indonesia", "Malaysia", "Mexico",
      "Taiwan", "Thailand", "USA", "Unknown", "Vietnam">>

Sorted(S) == LET In(c) == c \in S IN SelectSeq(CountryOrder, In)

Range(s) == {s[i] : i \in DOMAIN s}

DataCountries(table) == {table.rows[i].supplier_country : i \in 1..Len(table.rows)}

\* dict.get(key, default)
Get(map, key, default) == IF key \in DOMAIN map THEN map[key] ELSE default

SetDefaultsBuiltinOnly(map, countries) == map

\* for c in sorted(unique()): default_tariffs.setdefault(c, 0.05)
SetDefaults(map, countries) ==
    [c \in DOMAIN map \cup countries |->
       IF c \in DOMAIN map THEN map[c] ELSE fallback_rate]

\* st.sidebar.number_input: the value the widget holds in the session, or
\* its default when the widget was not on the page in the previous run
NumberInput(session, c, value) ==
    IF c \in DOMAIN session THEN session[c] ELSE value

BuildCountryRates(session, defaults) ==
    [c \in DOMAIN defaults |-> NumberInput(session, c, defaults[c])]

(***************************************************************************)
(* Cost model.                                                             *)
(***************************************************************************)
landed_cost_no_fx(row, country_map, fx) ==
    row.base_cost * (100 + Get(country_map, row.supplier_country, fallback_rate))
        * fx_baseline

landed_cost(row, country_map, fx) ==
    row.base_cost * (100 + Get(country_map, row.supplier_country, fallback_rate))
        * fx

\* Series.map(dict): NaN for a key the dict lacks
MapTariff(map, key) == IF key \in DOMAIN map THEN map[key] ELSE NaN

AddCostColumnsSharedMap(row, defaults, rates, fx) ==
    LET b == landed_cost(row, rates, fx)
        s == landed_cost(row, rates, fx)
    IN  row @@ [baseline_tariff |-> MapTariff(rates, row.supplier_country),
                baseline_landed_cost |-> b,
                scenario_landed_cost |-> s,
                annual_cost_baseline |-> b * row.annual_units,
                annual_cost_scenario |-> s * row.annual_units,
                annual_delta |-> s * row.annual_units - b * row.annual_units]

AddCostColumns(row, defaults, rates, fx) ==
    LET b == landed_cost(row, defaults, fx_baseline)
        s == landed_cost(row, rates, fx)
    IN  row @@ [baseline_tariff |-> MapTariff(defaults, row.supplier_country),
                baseline_landed_cost |-> b,
                scenario_landed_cost |-> s,
                annual_cost_baseline |-> b * row.annual_units,
                annual_cost_scenario |-> s * row.annual_units,
                annual_delta |-> s * row.annual_units - b * row.annual_units]

(***************************************************************************)
(* Alternate supplier recommendation.                                      *)
(***************************************************************************)
CandidateCountriesNamedOnly(defaults) ==
    Sorted(DOMAIN builtin_tariffs \cup named_candidates)

CandidateCountries(defaults) == Sorted(DOMAIN defaults \cup named_candidates)

ImprovesOrTies(alt_cost, best_cost) == alt_cost <= best_cost

ImprovesReversed(alt_cost, best_cost) == alt_cost > best_cost

\* if alt_cost < best_cost
Improves(alt_cost, best_cost) == alt_cost < best_cost

RECURSIVE Scan(_, _, _, _, _)
Scan(row, candidates, rates, fx, best) ==
    IF candidates = <<>> THEN best
    ELSE LET c == Head(candidates)
             t == Get(rates, c, fallback_rate)
             alt_cost == row.base_cost * (100 + t) * fx
         IN  Scan(row, Tail(candidates), rates, fx,
                  IF Improves(alt_cost, best.cost)
                  THEN [country |-> c, cost |-> alt_cost]
                  ELSE best)

SavingsPerUnitFlipped(current_cost, best_cost) == Max(0, best_cost - current_cost)

SavingsPerUnit(current_cost, best_cost) == Max(0, current_cost - best_cost)

best_alternative(row, candidates, rates, fx) ==
    LET current == row.supplier_country
        current_cost == row.scenario_landed_cost
        best == Scan(row, candidates, rates, fx,
                     [country |-> current, cost |-> current_cost])
    IN  [alt_country |-> best.country,
         alt_landed_cost |-> best.cost,
         savings_per_unit_if_switch |-> SavingsPerUnit(current_cost, best.cost)]

AddAlternativeColumns(row, candidates, rates, fx) ==
    LET alt == best_alternative(row, candidates, rates, fx)
    IN  row @@ alt @@
        [annual_savings_if_switch |->
            alt.savings_per_unit_if_switch * row.annual_units]

DerivedColumns ==
    {"baseline_tariff", "baseline_landed_cost", "scenario_landed_cost",
     "annual_cost_baseline", "annual_cost_scenario", "annual_delta",
     "alt_country", "alt_landed_cost", "savings_per_unit_if_switch",
     "annual_savings_if_switch"}

Enrich(table, defaults, rates, fx, candidates) ==
    [columns |-> table.columns \cup DerivedColumns,
     rows |-> [i \in 1..Len(table.rows) |->
                 AddAlternativeColumns(
                     AddCostColumns(table.rows[i], defaults, rates, fx),
                     candidates, rates, fx)]]

(***************************************************************************)
(* Recommendations view.                                                   *)
(***************************************************************************)
KeepsZeroSavings(row) == row.annual_savings_if_switch >= 0

\* df["annual_savings_if_switch"] > 0
HasSavings(row) == row.annual_savings_if_switch > 0

\* sort_values(ascending=False): any arrangement in descending order (the
\* order of equal keys is not determined)
SortValuesDesc(s) ==
    LET n == Len(s)
        perms == {p \in [1..n -> 1..n] : \A i, j \in 1..n : i # j => p[i] # p[j]}
    IN  {[i \in 1..n |-> s[p[i]]] : p \in
           {q \in perms : \A i, j \in 1..n : i < j =>
               s[q[i]].annual_savings_if_switch >= s[q[j]].annual_savings_if_switch}}

HeadN(s, n) == SubSeq(s, 1, Min(Len(s), n))

Recommendations(table) ==
    {HeadN(v, top_n) : v \in SortValuesDesc(SelectSeq(table.rows, HasSavings))}

(***************************************************************************)
(* One execution of the script on the table `table`, with the widget       *)
(* values the session holds: the set of states the run may end in.         *)
(***************************************************************************)
EmptyMap == [c \in {} |-> 0]

Run(table, session_rates, session_fx) ==
    IF Missing(table.columns) # {}
    THEN \* st.error(...); st.stop(): nothing after line 35 is executed, and
         \* no widget of the sidebar is on the page
         {[halted |-> TRUE,
           df |-> LowerColumns(table),
           default_tariffs |-> EmptyMap,
           country_rates |-> EmptyMap,
           fx_adj |-> fx_default,
           candidate_countries |-> <<>>,
           recs |-> <<>>]}
    ELSE LET cleaned == Clean(LowerColumns(table))
             defaults == SetDefaults(builtin_tariffs, DataCountries(cleaned))
             rates == BuildCountryRates(session_rates, defaults)
             candidates == CandidateCountries(defaults)
             enriched == Enrich(cleaned, defaults, rates, session_fx, candidates)
         IN  {[halted |-> FALSE,
               df |-> enriched,
               default_tariffs |-> defaults,
               country_rates |-> rates,
               fx_adj |-> session_fx,
               candidate_countries |-> candidates,
               recs |-> v] : v \in Recommendations(enriched)}

Init ==
    \E f \in SampleInputs :
        \E s \in Run(f, EmptyMap, fx_default) :
            /\ raw = f
            /\ halted = s.halted
            /\ df = s.df
            /\ default_tariffs = s.default_tariffs
            /\ country_rates = s.country_rates
            /\ fx_adj = s.fx_adj
            /\ candidate_countries = s.candidate_countries
            /\ recs = s.recs

Rerun(table, session_rates, session_fx) ==
    \E s \in Run(table, session_rates, session_fx) :
        /\ raw' = table
        /\ halted' = s.halted
        /\ df' = s.df
        /\ default_tariffs' = s.default_tariffs
        /\ country_rates' = s.country_rates
        /\ fx_adj' = s.fx_adj
        /\ candidate_countries' = s.candidate_countries
        /\ recs' = s.recs

\* the user uploads a CSV file
Upload ==
    \E f \in FileInputs :
        /\ f # raw
        /\ Rerun(f, country_rates, fx_adj)

\* the user edits the number_input of one country
EditRate ==
    \E c \in EditCountries, r \in RateInputs :
        /\ ~halted
        /\ c \in DOMAIN country_rates
        /\ r >= rate_min /\ r <= rate_max
        /\ r # country_rates[c]
        /\ Rerun(raw, [country_rates EXCEPT ![c] = r], fx_adj)

\* the user moves the FX slider
MoveFx ==
    \E f \in FxInputs :
        /\ ~halted
        /\ f # fx_adj
        /\ Rerun(raw, country_rates, f)

Next == Upload \/ EditRate \/ MoveFx

Spec == Init /\ [][Next]_vars

(***************************************************************************)
(* Properties.                                                             *)
(***************************************************************************)

\* C1: for every record, alt_landed_cost is the minimum of the record's own
\* scenario_landed_cost and base_cost * (1 + scenario_rate(c)) * fx over
\* every key c of the tariff table; so it is at most scenario_landed_cost
\* and no candidate is strictly cheaper.
C1_AltIsMinimum ==
    ~halted =>
        \A i \in 1..Len(df.rows) :
            LET row == df.rows[i]
                costs == {row.scenario_landed_cost} \cup
                         {row.base_cost * (100 + country_rates[c]) * fx_adj :
                             c \in DOMAIN default_tariffs}
            IN  /\ row.alt_landed_cost \in costs
                /\ \A x \in costs : row.alt_landed_cost <= x
                /\ row.alt_landed_cost <= row.scenario_landed_cost

C1_Witness ==
    /\ ~halted
    /\ \E i \in 1..Len(df.rows) :
           /\ df.rows[i].alt_landed_cost < df.rows[i].scenario_landed_cost
           /\ \E c \in DOMAIN default_tariffs :
                  df.rows[i].base_cost * (100 + country_rates[c]) * fx_adj
                      > df.rows[i].scenario_landed_cost

\* C2: tie-break: when the scenario cost of the record's current supplier
\* country equals the minimum over all candidate countries, alt_country is
\* the current supplier_country and savings_per_unit_if_switch is 0.
C2_TieKeepsCurrent ==
    ~halted =>
        \A i \in 1..Len(df.rows) :
            LET row == df.rows[i]
            IN  (\A c \in Range(candidate_countries) :
                     row.base_cost * (100 + country_rates[row.supplier_country]) * fx_adj
                         <= row.base_cost * (100 + country_rates[c]) * fx_adj)
                => /\ row.alt_country = row.supplier_country
                   /\ row.savings_per_unit_if_switch = 0

C2_Witness ==
    /\ ~halted
    /\ \E i \in 1..Len(df.rows) :
           LET row == df.rows[i]
           IN  /\ row.base_cost # 0
               /\ row.alt_country = row.supplier_country
               /\ \E c \in Range(candidate_countries) :
                      /\ c # row.supplier_country
                      /\ row.base_cost * (100 + country_rates[c]) * fx_adj
                             = row.scenario_landed_cost
               /\ \A c \in Range(candidate_countries) :
                      row.scenario_landed_cost
                          <= row.base_cost * (100 + country_rates[c]) * fx_adj

\* C3: for every record, savings_per_unit_if_switch equals
\* max(0, scenario_landed_cost - alt_landed_cost) and is never negative.
C3_SavingsClamped ==
    ~halted =>
        \A i \in 1..Len(df.rows) :
            LET row == df.rows[i]
                d == row.scenario_landed_cost - row.alt_landed_cost
            IN  /\ row.savings_per_unit_if_switch = (IF d > 0 THEN d ELSE 0)
                /\ row.savings_per_unit_if_switch >= 0

C3_Witness ==
    /\ ~halted
    /\ \E i \in 1..Len(df.rows) : df.rows[i].savings_per_unit_if_switch > 0
    /\ \E i \in 1..Len(df.rows) : df.rows[i].savings_per_unit_if_switch = 0

\* C4: when a required column is absent after lower-casing the column
\* names, the run ends in the schema-error state: no cleaning, no tariff
\* map, no derived column and no view is produced; when every required
\* column is present, in any letter case and with any extra column, the
\* error state is not reached.
C4_SchemaError ==
    LET absent == \E r \in required : \A c \in raw.columns : Lower(c) # r
    IN  /\ absent =>
            /\ halted
            /\ df.columns \cap DerivedColumns = {}
            /\ Len(df.rows) = Len(raw.rows)
            /\ \A i \in 1..Len(raw.rows) : \A c \in raw.columns :
                   df.rows[i][Lower(c)] = raw.rows[i][c]
            /\ DOMAIN default_tariffs = {}
            /\ DOMAIN country_rates = {}
            /\ candidate_countries = <<>>
            /\ recs = <<>>
        /\ ~absent =>
            /\ ~halted
            /\ DerivedColumns \subseteq df.columns

C4_Witness ==
    /\ halted
    /\ Len(df.rows) > 0
    /\ "hs_code" \notin df.columns

\* C5: after cleaning, every record has a non-negative base_cost and a
\* non-negative integer annual_units, whatever the raw values were, and no
\* row is dropped.
C5_CleanedNonNegative ==
    ~halted =>
        /\ Len(df.rows) = Len(raw.rows)
        /\ \A i \in 1..Len(df.rows) :
               /\ df.rows[i].base_cost >= 0
               /\ df.rows[i].annual_units >= 0

\* C6: the baseline and the scenario tariff map have the same key set, the
\* union of the built-in countries and the supplier countries of the loaded
\* records; a data country absent from the built-in table has baseline rate
\* 0.05; every scenario rate lies in [0.0, 1.0].
C6_SameKeySet ==
    ~halted =>
        LET data == {df.rows[i].supplier_country : i \in 1..Len(df.rows)}
        IN  /\ DOMAIN default_tariffs = DOMAIN builtin_tariffs \cup data
            /\ DOMAIN country_rates = DOMAIN builtin_tariffs \cup data
            /\ \A c \in data \ DOMAIN builtin_tariffs : default_tariffs[c] = 5
            /\ \A c \in DOMAIN country_rates :
                   country_rates[c] >= 0 /\ country_rates[c] <= 100

C6_Witness ==
    /\ ~halted
    /\ \E i \in 1..Len(df.rows) :
           df.rows[i].supplier_country \notin DOMAIN builtin_tariffs
    /\ \E c \in DOMAIN country_rates : country_rates[c] # default_tariffs[c]

\* C7: baseline_landed_cost = base_cost * (1 + baseline_rate) * 1.0,
\* scenario_landed_cost = base_cost * (1 + scenario_rate) * fx, the annual
\* costs are these times annual_units, annual_delta is their difference,
\* unclamped; base_cost 10, China, 100 units, baseline rate 0.20, scenario
\* rate 0.10, fx 1.0 gives 12.0, 1200.0, 11.0, 1100.0 and -100.0.
C7_CostColumns ==
    ~halted =>
        \A i \in 1..Len(df.rows) :
            LET row == df.rows[i]
                b == row.base_cost * (100 + default_tariffs[row.supplier_country]) * 100
                s == row.base_cost * (100 + country_rates[row.supplier_country]) * fx_adj
            IN  /\ row.baseline_tariff = default_tariffs[row.supplier_country]
                /\ row.baseline_landed_cost = b
                /\ row.scenario_landed_cost = s
                /\ row.annual_cost_baseline = b * row.annual_units
                /\ row.annual_cost_scenario = s * row.annual_units
                /\ row.annual_delta = s * row.annual_units - b * row.annual_units
                /\ (/\ row.base_cost = 100
                    /\ row.supplier_country = "China"
                    /\ row.annual_units = 100
                    /\ country_rates["China"] = 10
                    /\ fx_adj = 100)
                   => /\ row.baseline_tariff = 20
                      /\ row.baseline_landed_cost = 1200000
                      /\ row.annual_cost_baseline = 120000000
                      /\ row.scenario_landed_cost = 1100000
                      /\ row.annual_cost_scenario = 110000000
                      /\ row.annual_delta = -10000000

C7_Witness ==
    /\ ~halted
    /\ fx_adj = 100
    /\ country_rates["China"] = 10
    /\ \E i \in 1..Len(df.rows) :
           /\ df.rows[i].base_cost = 100
           /\ df.rows[i].supplier_country = "China"
           /\ df.rows[i].annual_units = 100
           /\ df.rows[i].annual_delta < 0

\* C8 as stated: a supplier country of the data that is absent from the
\* built-in country list is never returned as alt_country for a record
\* whose current supplier_country is a different country.
C8_OnlyListedTargets ==
    ~halted =>
        \A i \in 1..Len(df.rows) :
            df.rows[i].alt_country # df.rows[i].supplier_country
            => df.rows[i].alt_country \in DOMAIN builtin_tariffs \cup named_candidates

\* C8 as amended: a supplier country of the data that is absent from the
\* built-in list gets a rate for its own records and is a switch candidate
\* like every other key of the tariff table; an alt_country that differs
\* from the record's supplier_country is a key of the tariff table whose
\* scenario cost is strictly lower than the record's scenario cost.
C8_DataCountriesAreTargets ==
    ~halted =>
        /\ Range(candidate_countries) =
               DOMAIN builtin_tariffs \cup named_candidates \cup
               {df.rows[i].supplier_country : i \in 1..Len(df.rows)}
        /\ \A i \in 1..Len(df.rows) :
               LET row == df.rows[i]
               IN  /\ row.supplier_country \in DOMAIN country_rates
                   /\ row.alt_country # row.supplier_country
                      => /\ row.alt_country \in Range(candidate_countries)
                         /\ row.alt_landed_cost =
                                row.base_cost * (100 + country_rates[row.alt_country]) * fx_adj
                         /\ row.alt_landed_cost < row.scenario_landed_cost

C8_Witness ==
    /\ ~halted
    /\ \E i \in 1..Len(df.rows) :
           /\ df.rows[i].alt_country # df.rows[i].supplier_country
           /\ df.rows[i].alt_country \notin DOMAIN builtin_tariffs \cup named_candidates

C10_BaselineFixed ==
    [][(~halted /\ ~halted' /\ raw' = raw) =>
          /\ Len(df'.rows) = Len(df.rows)
          /\ default_tariffs' = default_tariffs
          /\ \A i \in 1..Len(df.rows) :
                 /\ df'.rows[i].baseline_tariff = df.rows[i].baseline_tariff
                 /\ df'.rows[i].baseline_landed_cost = df.rows[i].baseline_landed_cost
                 /\ df'.rows[i].annual_cost_baseline = df.rows[i].annual_cost_baseline
                 /\ df'.rows[i].scenario_landed_cost =
                        df'.rows[i].base_cost
                            * (100 + country_rates'[df'.rows[i].supplier_country])
                            * fx_adj'
                 /\ df'.rows[i].annual_cost_scenario =
                        df'.rows[i].scenario_landed_cost * df'.rows[i].annual_units
      ]_vars

C10_Witness ==
    /\ ~halted
    /\ fx_adj # 100
    /\ \E c \in DOMAIN country_rates : country_rates[c] # default_tariffs[c]
    /\ \E i \in 1..Len(df.rows) :
           /\ df.rows[i].scenario_landed_cost # df.rows[i].baseline_landed_cost
           /\ df.rows[i].baseline_landed_cost # 0

====
